---- MODULE Spec2Model ----
(***************************************************************************)
(* GitLabAPI FP wrappers (GitLabAPI.ts) and the TaskEither helpers         *)
(* (TaskEitherUtils.ts) of fp-gitlab-example.                              *)
(*                                                                         *)
(* A TaskEither is () => Promise<Either<Error, A>>.  Calling a wrapper     *)
(* method (getUserFp, ...) builds such a task; invoking the task runs the  *)
(* thunk (pre-call log, SDK call) and, once the SDK promise has settled,   *)
(* the then-callbacks of the pipeline.  The callbacks of one invocation    *)
(* read and write nothing but that invocation's own promise chain and the  *)
(* logger, so they are taken as one step per invocation.                   *)
(***************************************************************************)
EXTENDS Integers, Sequences, FiniteSets, Bags, TLC

\* Bound on the number of calls the client makes (wrapper-method calls plus
\* task invocations).
MaxCalls == 4

\* Bound on the number of calls of the imperative (async) methods.
MaxAsync == 2

VARIABLES
  tasks,     \* the TaskEithers built so far: tasks[p] is the wrapper that built it
  inv,       \* the invocations of tasks, in the order they were started
  sdkCalls,  \* the calls the SDK client (this.api) has received, in order:
             \* [op |-> the SDK method, task |-> the task whose thunk made the call]
  logCalls,  \* the bag of the calls debugLog has received
  api,       \* the constructor arguments: repoMetadata and repoCredentials.host
  calls      \* the calls of the imperative async methods, in the order they were made

vars == <<tasks, inv, sdkCalls, logCalls, api, calls>>

----------------------------------------------------------------------------
(* JavaScript values.  One record shape for all of them:                   *)
(*   type    "object" | "array" | "error" | "null" | "undefined" | "string"*)
(*   id      the value of own property id (0: the object has no key id)    *)
(*   changes the value of own property changes: the number n stands for    *)
(*           the list ChangeList(n) (0: the object has no key changes)     *)
(*   items   for an array, the number that identifies its contents         *)
(*   text    the message of an Error, the characters of a string           *)

JsValue(t, i, c, n, s) == [type |-> t, id |-> i, changes |-> c, items |-> n, text |-> s]

Undefined == JsValue("undefined", 0, 0, 0, "")

Null == JsValue("null", 0, 0, 0, "")

Str(s) == JsValue("string", 0, 0, 0, s)

Obj(i, c) == JsValue("object", i, c, 0, "")

ChangeList(n) == JsValue("array", 0, 0, n, "")

\* Error(message) / new Error(message)
Error(message) == JsValue("error", 0, 0, 0, message)

\* The TypeError the `in` operator throws on a right-hand side that is no object.
InTypeError == Error("TypeError: Cannot use 'in' operator")

\* typeof o: null is reported as "object".
typeof(o) == IF o.type \in {"object", "array", "error", "null"} THEN "object" ELSE o.type

\* `k in o` for an o that is an object.
HasProperty(o, k) ==
  CASE k = "id" -> o.id # 0
    [] k = "changes" -> o.changes # 0
    [] OTHER -> k \in DOMAIN o

\* `k in o` throws a TypeError unless o is an object (null and primitives throw).
InThrows(o) == o.type \notin {"object", "array", "error"}

\* String(e)
String(e) ==
  CASE e.type = "string" -> e.text
    [] e.type = "null" -> "null"
    [] e.type = "undefined" -> "undefined"
    [] e.type = "error" -> "Error: " \o e.text
    [] OTHER -> "[object Object]"

\* What the SDK promise can resolve with and reject with.
Responses == {Obj(i, c) : i \in {0, 1}, c \in {0, 1}} \cup {Null, Str("ok")}

Reasons == {Error("network"), Str("timeout"), Undefined}

----------------------------------------------------------------------------
(* Strings that the code takes apart are sequences of one-character        *)
(* strings; Text gives the string.                                         *)

RECURSIVE Text(_)
Text(chars) == IF chars = <<>> THEN "" ELSE Head(chars) \o Text(Tail(chars))

Digits == <<"0", "1", "2", "3", "4", "5", "6", "7", "8", "9">>

\* The value of the digit ch, or -1 when ch is no digit.
DigitValue(ch) ==
  IF \E d \in 1..Len(Digits) : Digits[d] = ch
  THEN (CHOOSE d \in 1..Len(Digits) : Digits[d] = ch) - 1
  ELSE 0 - 1

\* The longest prefix of chars made of digits below the radix.
RECURSIVE DigitPrefix(_, _)
DigitPrefix(chars, radix) ==
  IF chars = <<>> \/ DigitValue(Head(chars)) < 0 \/ DigitValue(Head(chars)) >= radix
  THEN <<>>
  ELSE <<Head(chars)>> \o DigitPrefix(Tail(chars), radix)

RECURSIVE NumberOf(_, _)
NumberOf(digits, radix) ==
  IF digits = <<>> THEN 0
  ELSE NumberOf(SubSeq(digits, 1, Len(digits) - 1), radix) * radix
         + DigitValue(digits[Len(digits)])

\* A JavaScript number that may be NaN.
Num(n) == [nan |-> FALSE, value |-> n]

NaN == [nan |-> TRUE, value |-> 0]

\* Variant of parseInt that ignores the radix and reads a leading 0 as octal,
\* as parseInt(string) without a radix did.
parseIntLegacyOctal(chars, radix) ==
  IF chars # <<>> /\ Head(chars) = "0"
  THEN Num(NumberOf(DigitPrefix(chars, 8), 8))
  ELSE IF DigitPrefix(chars, 10) = <<>> THEN NaN
  ELSE Num(NumberOf(DigitPrefix(chars, 10), 10))

\* parseInt(string, radix) for a string without leading blanks or sign: the
\* number its leading digits spell, NaN when it starts with no digit.
parseInt(chars, radix) ==
  IF DigitPrefix(chars, radix) = <<>> THEN NaN
  ELSE Num(NumberOf(DigitPrefix(chars, radix), radix))

\* new GitLabAPI(repoMetadata, repoCredentials)
GitLabAPI(host, repoSlug, pullRequestID) ==
  [host |-> host, repoSlug |-> repoSlug, pullRequestID |-> pullRequestID]

\* The instance the tests build in beforeEach.
TestAPI == GitLabAPI("https://gitlab.com", "gitlab-org/gitlab-ce", <<"2", "7", "1", "1", "7">>)

\* Variant of projectURL for a host that ends with a slash.
projectURLHostWithSlash == api.host \o api.repoSlug

\* get projectURL
projectURL == api.host \o "/" \o api.repoSlug

\* get mergeRequestURL
mergeRequestURL == projectURL \o "/merge_requests/" \o Text(api.pullRequestID)

----------------------------------------------------------------------------
(* Completions of synchronous calls and settlements of promises.           *)

Return(v) == [kind |-> "return", val |-> v]

Throw(e) == [kind |-> "throw", val |-> e]

\* Either
left(e) == [tag |-> "Left", val |-> e]

right(a) == [tag |-> "Right", val |-> a]

\* A promise: pending, fulfilled with a plain value, fulfilled with an Either
\* (tag Left / Right), or rejected.
Pending == [tag |-> "Pending", val |-> Undefined]

Fulfilled(v) == [tag |-> "Fulfilled", val |-> v]

Rejected(r) == [tag |-> "Rejected", val |-> r]

\* Observable events: calls of the logger, of the SDK and of a validator.
LogEvent(label) == [ev |-> "log", label |-> label, nargs |-> 1, arg |-> Undefined]

LogValueEvent(label, obj) == [ev |-> "log", label |-> label, nargs |-> 2, arg |-> obj]

SdkEvent(op) == [ev |-> "sdk", label |-> op, nargs |-> 0, arg |-> Undefined]

\* An SDK call with arguments; args is the record of them.
SdkEventWith(op, n, args) == [ev |-> "sdk", label |-> op, nargs |-> n, arg |-> args]

\* (this.repoMetadata.repoSlug, parseInt(this.repoMetadata.pullRequestID, 10))
MergeRequestArgs == [projectId |-> api.repoSlug, mergerequestId |-> parseInt(api.pullRequestID, 10)]

ApplyEvent(f, a) == [ev |-> "apply", label |-> f, nargs |-> 1, arg |-> a]

\* A run of a promise chain: how its last promise settled and what was called so far.
Run(out, trace) == [out |-> out, trace |-> trace]

NotRun == Run(Pending, <<>>)

----------------------------------------------------------------------------
(* A callback returns a completion that also lists the events it caused.   *)

Returns(v, events) == [kind |-> "return", val |-> v, events |-> events]

\* Variant of toError that wraps every reason, Errors included, in a new Error.
toErrorWrapsAll(e) == Error(String(e))

\* Either.toError: an Error is kept, anything else becomes new Error(String(e)).
toError(e) == IF e.type = "error" THEN e ELSE Error(String(e))

\* TaskEither.fromEither: the task that resolves to the given Either.
fromEither(e) == e

----------------------------------------------------------------------------
(* GitLabAPI.ts: hasKey and the validators                                 *)

\* hasKey(o, k): typeof o === "object" && k in o.   "true" | "false" | "throw"
hasKey(o, k) ==
  IF typeof(o) = "object"
  THEN IF InThrows(o) THEN "throw" ELSE IF HasProperty(o, k) THEN "true" ELSE "false"
  ELSE "false"

validateUserProfile(response) ==
  CASE hasKey(response, "id") = "throw" -> Throw(InTypeError)
    [] hasKey(response, "id") = "true" -> Return(right(response))
    [] OTHER -> Return(left(Error("Invalid user profile")))

\* Variant of validateMergeRequests that checks for the key id, as validateUserProfile does.
validateMergeRequestsById(response) == validateUserProfile(response)

validateMergeRequests(response) == Return(right(response))

\* "changes" in obj, with no typeof guard
validateMergeRequestChanges(obj) ==
  IF InThrows(obj) THEN Throw(InTypeError)
  ELSE IF HasProperty(obj, "changes") THEN Return(right(obj))
  ELSE Return(left(Error("Invalid merge request")))

\* The validator named f applied to a; the application is recorded as an event.
Validate(f, a) ==
  LET c == CASE f = "validateUserProfile" -> validateUserProfile(a)
             [] f = "validateMergeRequests" -> validateMergeRequests(a)
             [] f = "validateMergeRequestChanges" -> validateMergeRequestChanges(a)
  IN [kind |-> c.kind, val |-> c.val, events |-> <<ApplyEvent(f, a)>>]

----------------------------------------------------------------------------
(* The callbacks handed to map and chain.  A callback is named by a record *)
(* [fn, arg]: fn says which function it is, arg is what it closes over.    *)

Callback(fn, arg) == [fn |-> fn, arg |-> arg]

\* Variant of LogAndReturn that logs and forgets to return obj.
LogAndReturnNothing(logString, obj) == Returns(Undefined, <<LogValueEvent(logString, obj)>>)

\* The callback logValueWith gives to map: logger(logString, obj); return obj.
LogAndReturn(logString, obj) == Returns(obj, <<LogValueEvent(logString, obj)>>)

\* Variant of InlineLog that logs the label only.
InlineLogLabelOnly(obj) == Returns(obj, <<LogEvent("getUser")>>)

\* The callback getUserFpShort gives to map: debugLog("getUser", obj); return obj.
InlineLog(obj) == Returns(obj, <<LogValueEvent("getUser", obj)>>)

\* flow(f, fromEither)
FlowFromEither(f, a) ==
  LET c == Validate(f, a)
  IN IF c.kind = "throw" THEN c ELSE Returns(fromEither(c.val), c.events)

\* (res: GitLabMRChanges) => res.changes
Changes(res) ==
  Returns(IF res.changes = 0 THEN Undefined ELSE ChangeList(res.changes),
          <<ApplyEvent("res.changes", res)>>)

\* The call cb(a).
Call(cb, a) ==
  CASE cb.fn = "logAndReturn" -> LogAndReturn(cb.arg, a)
    [] cb.fn = "inlineLog" -> InlineLog(a)
    [] cb.fn = "flowFromEither" -> FlowFromEither(cb.arg, a)
    [] cb.fn = "changes" -> Changes(a)

\* The call onRejected(reason); toError is the only handler the code passes.
OnRejected(handler, reason) == CASE handler = "toError" -> toError(reason)

----------------------------------------------------------------------------
(* fp-ts TaskEither, as the README quotes and describes it.                *)

\* TaskEither.tryCatch(f, onRejected):
\*   () => f().then(a => right(a), reason => left(onRejected(reason)))
\* p is the run of f(): the thunk's events and how its promise settled.
tryCatch(p, onRejected) ==
  Run(IF p.out.tag = "Fulfilled" THEN right(p.out.val)
      ELSE left(OnRejected(onRejected, p.out.val)),
      p.trace)

\* TaskEither.map(f): f is applied to the value of a Right; a Left passes through.
\* A callback that throws rejects the promise, and a rejected promise stays rejected.
map(f, fa) ==
  IF fa.out.tag = "Right"
  THEN LET c == Call(f, fa.out.val)
       IN Run(IF c.kind = "throw" THEN Rejected(c.val) ELSE right(c.val),
              fa.trace \o c.events)
  ELSE fa

\* TaskEither.chain(f): on a Right the task f(a) is run and its Either adopted; a
\* Left passes through and f is not called.  The value the callback returns is
\* the Either its task resolves to.
chain(f, ma) ==
  IF ma.out.tag = "Right"
  THEN LET c == Call(f, ma.out.val)
       IN Run(IF c.kind = "throw" THEN Rejected(c.val) ELSE c.val,
              ma.trace \o c.events)
  ELSE ma

----------------------------------------------------------------------------
(* TaskEitherUtils.ts                                                      *)

logValueWith(logString, fa) == map(Callback("logAndReturn", logString), fa)

\* Variant of fromThunk that passes the reason handler for both outcomes.
fromThunkCoercesValue(p) == Run(left(toError(p.out.val)), p.trace)

fromThunk(p) == tryCatch(p, "toError")

\* Variant of chainEither that runs the validator on the content of a Left as well.
chainEitherOnLeftToo(f, ma) ==
  chain(Callback("flowFromEither", f), Run(right(ma.out.val), ma.trace))

\* Variant of chainEither that runs the validator as a tap: it is called, and
\* the value goes on whatever the validator returned.
chainEitherAsTap(f, ma) ==
  IF ma.out.tag = "Right"
  THEN Run(ma.out, ma.trace \o Validate(f, ma.out.val).events)
  ELSE ma

\* chainEither(f) == chain(flow(f, fromEither))
chainEither(f, ma) == chain(Callback("flowFromEither", f), ma)

----------------------------------------------------------------------------
(* GitLabAPI.ts: the FP wrappers                                           *)

\* const logValue = TE.logValueWith(debugLog)
logValue(logString, fa) == logValueWith(logString, fa)

Sites == {"getUserFp", "getUserFpShort", "getMergeRequestInfoFp", "getMergeRequestChangesFp"}

\* The thunk of each wrapper: debugLog(...) and then the SDK call.
getUserThunk == <<LogEvent("getUser"), SdkEvent("Users.current")>>

getMergeRequestInfoThunk ==
  <<LogEvent("getMergeRequestInfo for repo: " \o api.repoSlug \o " pr: "
               \o Text(api.pullRequestID)),
    SdkEventWith("MergeRequests.show", 2, MergeRequestArgs)>>

getMergeRequestChangesThunk ==
  <<LogEvent("getMergeRequestChanges"),
    SdkEventWith("MergeRequests.changes", 2, MergeRequestArgs)>>

Thunk(site) ==
  CASE site \in {"getUserFp", "getUserFpShort"} -> getUserThunk
    [] site = "getMergeRequestInfoFp" -> getMergeRequestInfoThunk
    [] site = "getMergeRequestChangesFp" -> getMergeRequestChangesThunk

\* The pipelines.  p is the run of the thunk; the record holds the run after each
\* stage: lifted (fromThunk / tryCatch), tapped (the logging map; a pipeline
\* without one has tapped = lifted), chained (the validation), result (what the
\* task's promise settles with).
Stages(a, b, c, d) == [lifted |-> a, tapped |-> b, chained |-> c, result |-> d]

\* Variant of getUserFpRun that pipes the validation before the logging.
getUserFpRunValidatesFirst(p) ==
  LET a == fromThunk(p)
      b == chainEither("validateUserProfile", a)
      c == logValue("getUser", b)
  IN Stages(a, b, c, c)

getUserFpRun(p) ==
  LET a == fromThunk(p)
      b == logValue("getUser", a)
      c == chainEither("validateUserProfile", b)
  IN Stages(a, b, c, c)

getUserFpShortRun(p) ==
  LET a == tryCatch(p, "toError")
      b == map(Callback("inlineLog", "getUser"), a)
      c == chain(Callback("flowFromEither", "validateUserProfile"), b)
  IN Stages(a, b, c, c)

getMergeRequestInfoFpRun(p) ==
  LET a == fromThunk(p)
      b == logValue("getMergeRequestInfo", a)
      c == chainEither("validateMergeRequests", b)
  IN Stages(a, b, c, c)

getMergeRequestChangesFpRun(p) ==
  LET a == fromThunk(p)
      c == chainEither("validateMergeRequestChanges", a)
      d == map(Callback("changes", "changes"), c)
  IN Stages(a, a, c, d)

Pipeline(site, p) ==
  CASE site = "getUserFp" -> getUserFpRun(p)
    [] site = "getUserFpShort" -> getUserFpShortRun(p)
    [] site = "getMergeRequestInfoFp" -> getMergeRequestInfoFpRun(p)
    [] site = "getMergeRequestChangesFp" -> getMergeRequestChangesFpRun(p)

----------------------------------------------------------------------------
(* The state machine.                                                      *)

IsLog(e) == e.ev = "log"

IsSdk(e) == e.ev = "sdk"

NumLogs(trace) == Len(SelectSeq(trace, IsLog))

NumSdk(trace) == Len(SelectSeq(trace, IsSdk))

\* The bag of the debugLog calls among the events.
RECURSIVE LogBag(_)
LogBag(events) ==
  IF events = <<>> THEN EmptyBag
  ELSE IF IsLog(Head(events)) THEN SetToBag({Head(events)}) (+) LogBag(Tail(events))
  ELSE LogBag(Tail(events))

\* The SDK calls among the events, as made on behalf of task p.
SdkCallsOf(events, p) ==
  LET made == SelectSeq(events, IsSdk)
  IN [k \in 1..Len(made) |-> [op |-> made[k].label, task |-> p, args |-> made[k].arg]]

\* The events of `after` that follow its prefix `before`.
Since(before, after) == SubSeq(after, Len(before) + 1, Len(after))

Calls == Len(tasks) + Len(inv) + Len(calls)

\* Nothing has been called yet.
Fresh ==
  /\ tasks = <<>>
  /\ inv = <<>>
  /\ sdkCalls = <<>>
  /\ logCalls = EmptyBag
  /\ calls = <<>>

Init ==
  /\ Fresh
  /\ api = TestAPI

\* Variant of BuildEffects that runs the thunk while the task is built.
BuildEffectsEager(site) == Thunk(site)

\* What calling a wrapper method does: pipe(...) builds the task and returns it.
\* Nothing of the pipeline runs.
BuildEffects(site) == <<>>

Build(site) ==
  /\ Calls < MaxCalls
  /\ tasks' = Append(tasks, site)
  /\ sdkCalls' = sdkCalls \o SdkCallsOf(BuildEffects(site), Len(tasks) + 1)
  /\ logCalls' = logCalls (+) LogBag(BuildEffects(site))
  /\ UNCHANGED <<inv, api, calls>>

getUserFp == Build("getUserFp")

getUserFpShort == Build("getUserFpShort")

getMergeRequestInfoFp == Build("getMergeRequestInfoFp")

getMergeRequestChangesFp == Build("getMergeRequestChangesFp")

\* Variant of InvokeEffects that calls the thunk on the first invocation only.
InvokeEffectsMemoized(site, earlier) == IF earlier > 0 THEN <<>> ELSE Thunk(site)

\* What invoking task p does before it returns its promise: tryCatch calls the
\* thunk, every time.  `earlier` is the number of earlier invocations of p.
InvokeEffects(site, earlier) == Thunk(site)

Earlier(p) == Cardinality({i \in 1..Len(inv) : inv[i].task = p})

\* task(): the thunk runs (log, SDK call) and the SDK promise is pending.
Invoke(p) ==
  /\ Calls < MaxCalls
  /\ LET started == InvokeEffects(tasks[p], Earlier(p))
     IN /\ inv' = Append(inv, [task |-> p, site |-> tasks[p], sdk |-> Pending,
                               started |-> started,
                               run |-> Stages(NotRun, NotRun, NotRun, NotRun)])
        /\ sdkCalls' = sdkCalls \o SdkCallsOf(started, p)
        /\ logCalls' = logCalls (+) LogBag(started)
  /\ UNCHANGED <<tasks, api, calls>>

\* Variant of Settle that keeps the last response in a field shared by the
\* invocations: the callbacks of invocation i see what settled most recently
\* before it, if anything did.
SettleUsesLastResponse(i, outcome) ==
  /\ inv[i].sdk = Pending
  /\ LET earlier == {j \in 1..Len(inv) : inv[j].sdk # Pending}
         seen == IF earlier = {} THEN outcome ELSE inv[CHOOSE j \in earlier : TRUE].sdk
         r == Pipeline(inv[i].site, Run(seen, inv[i].started))
     IN /\ inv' = [inv EXCEPT ![i].sdk = outcome, ![i].run = r]
        /\ logCalls' = logCalls (+) LogBag(Since(inv[i].started, r.result.trace))
  /\ UNCHANGED <<tasks, sdkCalls, api, calls>>

\* The SDK promise of invocation i settles and the then-callbacks run.
Settle(i, outcome) ==
  /\ inv[i].sdk = Pending
  /\ LET r == Pipeline(inv[i].site, Run(outcome, inv[i].started))
     IN /\ inv' = [inv EXCEPT ![i].sdk = outcome, ![i].run = r]
        /\ logCalls' = logCalls (+) LogBag(Since(inv[i].started, r.result.trace))
  /\ UNCHANGED <<tasks, sdkCalls, api, calls>>

SdkResolves(i, v) == Settle(i, Fulfilled(v))

SdkRejects(i, r) == Settle(i, Rejected(r))

Next ==
  \/ getUserFp
  \/ getUserFpShort
  \/ getMergeRequestInfoFp
  \/ getMergeRequestChangesFp
  \/ \E p \in 1..Len(tasks) : Invoke(p)
  \/ \E i \in 1..Len(inv), v \in Responses : SdkResolves(i, v)
  \/ \E i \in 1..Len(inv), r \in Reasons : SdkRejects(i, r)

Spec == Init /\ [][Next]_vars

----------------------------------------------------------------------------
(* Properties.                                                             *)

Invocations == 1..Len(inv)

Settled(i) == inv[i].sdk # Pending

\* The wrappers built from the TaskEitherUtils helpers (getUserFpShort inlines them).
UsesHelpers(site) == site \in {"getUserFp", "getMergeRequestInfoFp", "getMergeRequestChangesFp"}

IsResult(out) == out.tag \in {"Left", "Right"}

\* C1: for every FP wrapper and every outcome of the SDK call, the promise of
\* an invocation resolves to a Result (Left or Right) and never rejects.
C1_AlwaysAResult ==
  \A i \in Invocations : Settled(i) => IsResult(inv[i].run.result.out)

\* C2: fromThunk, resolution: when the thunk's promise resolves with v, the
\* lifted task yields Right(v), v unchanged.
C2_FromThunkResolves ==
  \A i \in Invocations :
    (UsesHelpers(inv[i].site) /\ inv[i].sdk.tag = "Fulfilled")
      => inv[i].run.lifted.out = [tag |-> "Right", val |-> inv[i].sdk.val]

C2_Witness ==
  \E i \in Invocations :
    /\ UsesHelpers(inv[i].site)
    /\ inv[i].sdk = Fulfilled(Obj(1, 0))
    /\ inv[i].run.lifted.out.tag = "Right"

\* C3: fromThunk, rejection: when the thunk's promise rejects with r, the lifted
\* task does not reject; it yields Left(e), e being r itself when r is an Error
\* and otherwise an Error whose message is the string form of r.
C3_FromThunkRejects ==
  \A i \in Invocations :
    (UsesHelpers(inv[i].site) /\ inv[i].sdk.tag = "Rejected")
      => LET r == inv[i].sdk.val
             out == inv[i].run.lifted.out
         IN /\ out.tag = "Left"
            /\ r.type = "error" => out.val = r
            /\ r.type = "string" => out.val = Error(r.text)
            /\ r.type = "undefined" => out.val = Error("undefined")

C3_Witness ==
  \E i, j \in Invocations :
    /\ UsesHelpers(inv[i].site) /\ UsesHelpers(inv[j].site)
    /\ inv[i].sdk = Rejected(Error("network"))
    /\ inv[i].run.lifted.out.tag = "Left"
    /\ inv[j].sdk = Rejected(Str("timeout"))
    /\ inv[j].run.lifted.out.tag = "Left"

\* The validator and the labels of each wrapper, as the claims name them.
ValidatorOf(site) ==
  CASE site \in {"getUserFp", "getUserFpShort"} -> "validateUserProfile"
    [] site = "getMergeRequestInfoFp" -> "validateMergeRequests"
    [] site = "getMergeRequestChangesFp" -> "validateMergeRequestChanges"

ValueLabelOf(site) ==
  CASE site \in {"getUserFp", "getUserFpShort"} -> "getUser"
    [] site = "getMergeRequestInfoFp" -> "getMergeRequestInfo"
    [] site = "getMergeRequestChangesFp" -> "none"

PreCallLabelOf(site) ==
  CASE site \in {"getUserFp", "getUserFpShort"} -> "getUser"
    [] site = "getMergeRequestInfoFp" ->
         "getMergeRequestInfo for repo: " \o api.repoSlug \o " pr: " \o Text(api.pullRequestID)
    [] site = "getMergeRequestChangesFp" -> "getMergeRequestChanges"

SdkOpOf(site) ==
  CASE site \in {"getUserFp", "getUserFpShort"} -> "Users.current"
    [] site = "getMergeRequestInfoFp" -> "MergeRequests.show"
    [] site = "getMergeRequestChangesFp" -> "MergeRequests.changes"

\* The applications of validators among the events.
Applications(trace) == SelectSeq(trace, LAMBDA e : e.ev = "apply" /\ e.label # "res.changes")

\* v is an object that has the key k.
KeyPresent(v, k) == v.type = "object" /\ IF k = "id" THEN v.id # 0 ELSE v.changes # 0

\* C4: chainEither(f) on a task that yields Left(e): f is not invoked and the
\* result is Left(e), the original failure unchanged.
C4_ChainEitherOnLeft ==
  \A i \in Invocations :
    (UsesHelpers(inv[i].site) /\ Settled(i) /\ inv[i].run.tapped.out.tag = "Left")
      => /\ inv[i].run.chained.out = inv[i].run.tapped.out
         /\ Applications(inv[i].run.chained.trace) = <<>>

C4_Witness ==
  \E i \in Invocations :
    /\ UsesHelpers(inv[i].site)
    /\ inv[i].sdk = Rejected(Error("network"))
    /\ inv[i].run.tapped.out = [tag |-> "Left", val |-> Error("network")]
    /\ inv[i].run.chained.out = [tag |-> "Left", val |-> Error("network")]

\* What the validator of each wrapper answers for v, read off GitLabAPI.ts:
\* "Left" with the wrapper's message, "Right" with v, or "throw".
Verdict(site, v) ==
  CASE site = "getUserFp" ->
         IF v.type = "null" THEN "throw" ELSE IF KeyPresent(v, "id") THEN "Right" ELSE "Left"
    [] site = "getMergeRequestInfoFp" -> "Right"
    [] site = "getMergeRequestChangesFp" ->
         IF v.type \in {"null", "string"} THEN "throw"
         ELSE IF KeyPresent(v, "changes") THEN "Right" ELSE "Left"

MessageOf(site) ==
  IF site = "getMergeRequestChangesFp" THEN "Invalid merge request" ELSE "Invalid user profile"

\* C5: chainEither(f) on a task that yields Right(v): f is applied to v exactly
\* once and the result is f(v): Left(e') when f(v) is Left(e'), Right(w) when
\* f(v) is Right(w).
C5_ChainEitherOnRight ==
  \A i \in Invocations :
    (UsesHelpers(inv[i].site) /\ Settled(i) /\ inv[i].run.tapped.out.tag = "Right")
      => LET v == inv[i].run.tapped.out.val
             site == inv[i].site
             out == inv[i].run.chained.out
         IN /\ Applications(inv[i].run.chained.trace)
                 = <<[ev |-> "apply", label |-> ValidatorOf(site), nargs |-> 1, arg |-> v]>>
            /\ Verdict(site, v) = "Left"
                 => out = [tag |-> "Left", val |-> Error(MessageOf(site))]
            /\ Verdict(site, v) = "Right" => out = [tag |-> "Right", val |-> v]

C5_Witness ==
  \E i, j \in Invocations :
    /\ inv[i].site = "getUserFp" /\ inv[j].site = "getUserFp"
    /\ inv[i].run.tapped.out = [tag |-> "Right", val |-> Obj(1, 0)]
    /\ inv[i].run.chained.out.tag = "Right"
    /\ inv[j].run.tapped.out = [tag |-> "Right", val |-> Obj(0, 1)]
    /\ inv[j].run.chained.out.tag = "Left"

UsesLogValue(site) == site \in {"getUserFp", "getMergeRequestInfoFp"}

\* C6: logValueWith(logger)(label) never changes the Result: Right(v) stays
\* Right(v) and Left(e) stays Left(e); the logger is called exactly once, with
\* (label, v), on a Right and not at all on a Left.
C6_LogValueIsATap ==
  \A i \in Invocations :
    (UsesLogValue(inv[i].site) /\ Settled(i))
      => LET before == inv[i].run.lifted
             after == inv[i].run.tapped
         IN /\ after.out = before.out
            /\ before.out.tag = "Right"
                 => Since(before.trace, after.trace)
                      = <<[ev |-> "log", label |-> ValueLabelOf(inv[i].site), nargs |-> 2,
                           arg |-> before.out.val]>>
            /\ before.out.tag = "Left" => after.trace = before.trace

C6_Witness ==
  \E i, j \in Invocations :
    /\ UsesLogValue(inv[i].site) /\ UsesLogValue(inv[j].site)
    /\ inv[i].run.lifted.out = [tag |-> "Right", val |-> Obj(1, 1)]
    /\ Len(inv[i].run.tapped.trace) = Len(inv[i].run.lifted.trace) + 1
    /\ inv[j].run.lifted.out.tag = "Left"
    /\ inv[j].run.tapped.out.tag = "Left"

\* C7: getUserFp end to end: a resolved response that contains the key id
\* yields Right with that response unchanged; a resolved response that lacks
\* the key id yields Left whose error message is "Invalid user profile".
C7_GetUserFpEndToEnd ==
  \A i \in Invocations :
    (inv[i].site = "getUserFp" /\ inv[i].sdk.tag = "Fulfilled")
      => LET v == inv[i].sdk.val
             out == inv[i].run.result.out
         IN IF KeyPresent(v, "id")
            THEN out = [tag |-> "Right", val |-> v]
            ELSE out.tag = "Left" /\ out.val.text = "Invalid user profile"

CheckedSites == {"getUserFp", "getMergeRequestInfoFp", "getMergeRequestChangesFp"}

InvocationsOf(p) == {i \in Invocations : inv[i].task = p}

\* Everything invocation i has called so far.
TraceOf(i) == IF Settled(i) THEN inv[i].run.result.trace ELSE inv[i].started

PreCallLog(site) == [ev |-> "log", label |-> PreCallLabelOf(site), nargs |-> 1, arg |-> Undefined]

\* C9: no memoization and no retry: after n invocations of the same task the
\* SDK operation has been started exactly n times for it and the thunk's
\* pre-call log emitted exactly n times: one SDK call and one pre-call log per
\* invocation, whether it ends in Right or in Left.
C9_OneSdkCallPerInvocation ==
  /\ \A p \in 1..Len(tasks) :
       LET mine == {k \in 1..Len(sdkCalls) : sdkCalls[k].task = p}
       IN /\ Cardinality(mine) = Cardinality(InvocationsOf(p))
          /\ \A k \in mine : sdkCalls[k].op = SdkOpOf(tasks[p])
  /\ \A i \in Invocations :
       /\ NumSdk(TraceOf(i)) = 1
       /\ Len(SelectSeq(TraceOf(i), LAMBDA e : e = PreCallLog(inv[i].site))) = 1
  /\ \A site \in Sites :
       CopiesIn(PreCallLog(site), logCalls)
         = Cardinality({i \in Invocations : PreCallLabelOf(inv[i].site) = PreCallLabelOf(site)})

C9_Witness ==
  \E i, j \in Invocations :
    /\ i # j /\ inv[i].task = inv[j].task
    /\ inv[i].run.result.out.tag = "Right"
    /\ inv[j].run.result.out.tag = "Left"
    /\ Cardinality({k \in 1..Len(sdkCalls) : sdkCalls[k].task = inv[i].task}) = 2

\* C10: building a pipeline is free of effects: a step that calls a wrapper
\* method starts no SDK call and calls no logger, however often it is taken;
\* SDK calls and log entries occur only in steps of an invocation.
C10_BuildingHasNoEffect ==
  [][/\ tasks' # tasks => (sdkCalls' = sdkCalls /\ logCalls' = logCalls /\ inv' = inv)
     /\ sdkCalls' # sdkCalls => Len(inv') = Len(inv) + 1
     /\ logCalls' # logCalls => inv' # inv]_vars

C10_Witness ==
  /\ Len(tasks) >= 2
  /\ inv = <<>>
  /\ sdkCalls = <<>>
  /\ logCalls = EmptyBag

----------------------------------------------------------------------------
(* Ordering and independence of invocations.                               *)

\* C11: within one getUserFp invocation the label-only log "getUser" comes
\* before the SDK call is started; if the call resolves with v the logger is
\* called with ("getUser", v) after the call has settled and before the
\* validator is applied to v; if the call rejects there is no value log and the
\* validator is not applied.
C11_GetUserFpEventOrder ==
  \A i \in Invocations :
    inv[i].site = "getUserFp"
      => LET trace == TraceOf(i)
             before == <<PreCallLog("getUserFp"), SdkEvent("Users.current")>>
         IN CASE inv[i].sdk.tag = "Pending" -> trace = before
              [] inv[i].sdk.tag = "Rejected" -> trace = before
              [] inv[i].sdk.tag = "Fulfilled" ->
                   trace = before \o <<LogValueEvent("getUser", inv[i].sdk.val),
                                       ApplyEvent("validateUserProfile", inv[i].sdk.val)>>

C11_Witness ==
  \E i, j \in Invocations :
    /\ inv[i].site = "getUserFp" /\ inv[j].site = "getUserFp"
    /\ inv[i].sdk = Fulfilled(Obj(1, 0))
    /\ Len(TraceOf(i)) = 4
    /\ inv[j].sdk = Rejected(Error("network"))
    /\ Len(TraceOf(j)) = 2

\* C12: invocations are independent: however two or more in-flight
\* invocations (of the same or of different wrappers) interleave and in
\* whatever order they settle, the Result of each is determined only by the
\* outcome of its own SDK call, and so is the input of its validator.
C12_InvocationsAreIndependent ==
  /\ \A i, j \in Invocations :
       (inv[i].site = inv[j].site /\ inv[i].sdk = inv[j].sdk)
         => inv[i].run.result.out = inv[j].run.result.out
  /\ \A i \in Invocations :
       /\ \A k \in 1..Len(TraceOf(i)) :
            TraceOf(i)[k].ev = "apply" /\ TraceOf(i)[k].label # "res.changes"
              => TraceOf(i)[k].arg = inv[i].sdk.val
       /\ inv[i].sdk.tag = "Pending" => inv[i].run.result.out.tag = "Pending"
       /\ inv[i].sdk.tag = "Rejected"
            => /\ inv[i].run.result.out.tag = "Left"
               /\ inv[i].sdk.val.type = "error"
                    => inv[i].run.result.out.val = inv[i].sdk.val
       /\ inv[i].sdk.tag = "Fulfilled" => inv[i].run.result.out.tag # "Pending"
       /\ (inv[i].sdk.tag = "Fulfilled" /\ inv[i].run.result.out.tag = "Right"
             /\ inv[i].site # "getMergeRequestChangesFp")
            => inv[i].run.result.out.val = inv[i].sdk.val

\* Two invocations of different wrappers are in flight and the one started
\* later has settled first.
C12_Witness ==
  /\ Len(inv) >= 2
  /\ inv[1].site # inv[2].site
  /\ inv[1].sdk = Pending
  /\ inv[2].sdk = Fulfilled(Obj(1, 1))
  /\ inv[2].run.result.out.tag = "Right"

\* C19: getUserFp (built from fromThunk, logValueWith and chainEither) and
\* getUserFpShort (the same pipeline written inline) are observationally
\* equivalent: for every SDK outcome they yield the same Result and make the
\* same sequence of SDK calls and logger calls.
C19_ShortIsEquivalent ==
  \A i, j \in Invocations :
    (inv[i].site = "getUserFp" /\ inv[j].site = "getUserFpShort" /\ inv[i].sdk = inv[j].sdk)
      => /\ inv[i].run.result.out = inv[j].run.result.out
         /\ SelectSeq(TraceOf(i), LAMBDA e : e.ev \in {"log", "sdk"})
              = SelectSeq(TraceOf(j), LAMBDA e : e.ev \in {"log", "sdk"})

C19_Witness ==
  \E i, j \in Invocations :
    /\ inv[i].site = "getUserFp" /\ inv[j].site = "getUserFpShort"
    /\ inv[i].sdk = Fulfilled(Obj(1, 0)) /\ inv[j].sdk = Fulfilled(Obj(1, 0))
    /\ inv[j].run.result.out = right(Obj(1, 0))
    /\ Len(TraceOf(j)) = 4

----------------------------------------------------------------------------
(* The imperative async methods.  Each is read as what the method does up  *)
(* to its await (its thunk) and what it does when the awaited promise p    *)
(* has settled; p is the run so far, as for the pipelines.                 *)

\* The TypeError a property read on null or undefined throws.
PropertyTypeError == Error("TypeError: Cannot read property of null")

\* mr.changes
ReadChanges(mr) ==
  IF mr.type \in {"null", "undefined"} THEN Throw(PropertyTypeError)
  ELSE Return(IF mr.changes = 0 THEN Undefined ELSE ChangeList(mr.changes))

\* getMergeRequestChanges up to the await.
getMergeRequestChangesStart ==
  <<LogEvent("getMergeRequestChanges for repo: " \o api.repoSlug \o " pr: "
               \o Text(api.pullRequestID)),
    SdkEventWith("MergeRequests.changes", 2, MergeRequestArgs)>>

\* getMergeRequestChanges after the await: debugLog(..., mr.changes); return mr.changes.
getMergeRequestChangesResume(p) ==
  IF p.out.tag # "Fulfilled" THEN p
  ELSE LET c == ReadChanges(p.out.val)
       IN IF c.kind = "throw" THEN Run(Rejected(c.val), p.trace)
          ELSE Run(Fulfilled(c.val),
                   p.trace \o <<LogValueEvent("getMergeRequestChanges", c.val)>>)

\* debugLog(label, a, b, ...): args is the record of the arguments after the label.
LogArgsEvent(label, n, args) == [ev |-> "log", label |-> label, nargs |-> n, arg |-> args]

\* A merge request as GitLab answers it, with diff_refs.head_sha.
MergeRequest(sha) ==
  [type |-> "object", id |-> 1, changes |-> 0, items |-> 0, text |-> "",
   diff_refs |-> [head_sha |-> sha]]

\* A repository file as GitLab answers it; content is base64.
File(content) ==
  [type |-> "object", id |-> 0, changes |-> 0, items |-> 0, text |-> "", content |-> content]

\* The error the SDK rejects with when the server answers with an error status.
HttpError(status) ==
  [type |-> "error", id |-> 0, changes |-> 0, items |-> 0, text |-> "Request failed",
   response |-> [status |-> status]]

Note(id, type) == [id |-> id, type |-> type]

\* An array of notes.
NoteList(notes) ==
  [type |-> "array", id |-> 0, changes |-> 0, items |-> Len(notes), text |-> "", notes |-> notes]

\* An optional argument that was not passed.
Omitted == "undefined"

\* Variant of InlineNotesOf that keeps the notes that have a type at all.
InlineNotesOfTyped(notes) == SelectSeq(notes, LAMBDA note : note.type # "null")

\* notes.filter(note => note.type == "DiffNote")
InlineNotesOf(notes) == SelectSeq(notes, LAMBDA note : note.type = "DiffNote")

\* notes.filter(...) on whatever the notes call resolved with.
FilterNotes(notes) ==
  IF notes.type = "array" /\ "notes" \in DOMAIN notes
  THEN Return(NoteList(InlineNotesOf(notes.notes)))
  ELSE Throw(PropertyTypeError)

\* mr.diff_refs.head_sha
ReadHeadSha(mr) ==
  IF "diff_refs" \in DOMAIN mr THEN Return(mr.diff_refs.head_sha) ELSE Throw(PropertyTypeError)

\* e.response.status: e.response is undefined unless the rejection carries a
\* response, and reading .status of undefined throws.
ReadStatus(e) ==
  IF "response" \in DOMAIN e THEN Return(e.response.status) ELSE Throw(PropertyTypeError)

\* Buffer.from(content, "base64").toString()
Base64Decode(content) ==
  CASE content = "aGk=" -> "hi"
    [] content = "YQ==" -> "a"
    [] OTHER -> ""

\* JSON.stringify(o), with the members of an object or array left out.
JSONStringify(o) ==
  CASE o.type = "string" -> "\"" \o o.text \o "\""
    [] o.type = "array" -> "[...]"
    [] o.type \in {"object", "error"} -> "{...}"
    [] OTHER -> "null"

\* getUser up to the await.
getUserStart == <<LogEvent("getUser"), SdkEvent("Users.current")>>

\* Variant of getUserResume that returns the user without logging it.
getUserResumeSilent(p) == p

\* getUser after the await: debugLog("getUser", user); return user.
getUserResume(p) ==
  IF p.out.tag # "Fulfilled" THEN p
  ELSE Run(p.out, p.trace \o <<LogValueEvent("getUser", p.out.val)>>)

\* getMergeRequestInfo up to the await.
getMergeRequestInfoStart ==
  <<LogEvent("getMergeRequestInfo for repo: " \o api.repoSlug \o " pr: "
               \o Text(api.pullRequestID)),
    SdkEventWith("MergeRequests.show", 2, MergeRequestArgs)>>

\* getMergeRequestInfo after the await.
getMergeRequestInfoResume(p) ==
  IF p.out.tag # "Fulfilled" THEN p
  ELSE Run(p.out, p.trace \o <<LogValueEvent("getMergeRequestInfo", p.out.val)>>)

\* getMergeRequestNotes up to the await; the pull-request ID goes unparsed.
getMergeRequestNotesStart ==
  LET args == [projectId |-> api.repoSlug, mergerequestId |-> Text(api.pullRequestID)]
  IN <<LogArgsEvent("getMergeRequestNotes", 3, args),
       SdkEventWith("MergeRequestNotes.all", 2, args)>>

\* getMergeRequestNotes after the await.
getMergeRequestNotesResume(p) ==
  IF p.out.tag # "Fulfilled" THEN p
  ELSE Run(p.out, p.trace \o <<LogValueEvent("getMergeRequestNotes", p.out.val)>>)

\* getMergeRequestInlineNotes up to the await of this.getMergeRequestNotes().
getMergeRequestInlineNotesStart ==
  <<LogEvent("getMergeRequestInlineNotes")>> \o getMergeRequestNotesStart

\* getMergeRequestInlineNotes after getMergeRequestNotes() has settled.
getMergeRequestInlineNotesResume(p) ==
  LET notes == getMergeRequestNotesResume(p)
  IN IF notes.out.tag # "Fulfilled" THEN notes
     ELSE LET c == FilterNotes(notes.out.val)
          IN IF c.kind = "throw" THEN Run(Rejected(c.val), notes.trace)
             ELSE Run(Fulfilled(c.val),
                      notes.trace \o <<LogValueEvent("getMergeRequestInlineNotes", c.val)>>)

\* getFileContents from the try block up to the await of api.show(...).
getFileContentsShow(path, slug, ref) ==
  LET args == [projectId |-> IF slug = Omitted THEN api.repoSlug ELSE slug,
               path |-> path, ref |-> ref]
  IN <<LogArgsEvent("getFileContents", 4, args),
       SdkEventWith("RepositoryFiles.show", 3, args)>>

\* getFileContents up to its first await: of this.getMergeRequestInfo() when no
\* ref was passed, of api.show(...) otherwise.
getFileContentsStart(path, slug, ref) ==
  <<LogEvent("getFileContents requested for path:" \o path \o ", slug:" \o slug
               \o ", ref:" \o ref)>>
    \o (IF ref = Omitted THEN getMergeRequestInfoStart
        ELSE getFileContentsShow(path, slug, ref))

\* getFileContents after getMergeRequestInfo() has settled: ref is read off the
\* merge request, outside the try block, and the try block is entered.
getFileContentsAfterInfo(path, slug, p) ==
  LET mr == getMergeRequestInfoResume(p)
  IN IF mr.out.tag # "Fulfilled" THEN mr
     ELSE LET c == IF mr.out.val.type \in {"null", "undefined"}
                   THEN Throw(PropertyTypeError) ELSE ReadHeadSha(mr.out.val)
          IN IF c.kind = "throw" THEN Run(Rejected(c.val), mr.trace)
             ELSE Run(Pending, mr.trace \o getFileContentsShow(path, slug, c.val))

\* The catch block of getFileContents, entered with e.
getFileContentsCatch(e, trace) ==
  LET logged == trace \o <<LogValueEvent("getFileContents", e)>>
      status == IF e.type \in {"null", "undefined"} THEN Throw(PropertyTypeError)
                ELSE ReadStatus(e)
  IN IF status.kind = "throw" THEN Run(Rejected(status.val), logged)
     ELSE IF status.val = 404 THEN Run(Fulfilled(Str("")), logged)
     ELSE Run(Rejected(e), logged)

\* getFileContents after api.show(...) has settled.
getFileContentsAfterShow(p) ==
  IF p.out.tag = "Rejected" THEN getFileContentsCatch(p.out.val, p.trace)
  ELSE LET response == p.out.val
           found == hasKey(response, "content")
       IN CASE found = "throw" -> getFileContentsCatch(InTypeError, p.trace)
            [] found = "false" ->
                 getFileContentsCatch(
                   Error("Could not find content in response: " \o JSONStringify(response)),
                   p.trace)
            [] found = "true" ->
                 LET result == Str(Base64Decode(response.content))
                 IN Run(Fulfilled(result),
                        p.trace \o <<LogValueEvent("getFileContents", result)>>)

\* The booleans.
True == JsValue("boolean", 0, 0, 0, "true")

False == JsValue("boolean", 0, 0, 0, "false")

\* createMergeRequestNote up to the await: the log of the arguments, the
\* label-only log inside the try block, and api.create(...).
createMergeRequestNoteStart(body) ==
  LET args == [projectId |-> api.repoSlug, mergerequestId |-> Text(api.pullRequestID),
               body |-> body]
  IN <<LogArgsEvent("createMergeRequestNote", 4, args),
       LogEvent("createMergeRequestNote"),
       SdkEventWith("MergeRequestNotes.create", 3, args)>>

\* Variant of createMergeRequestNoteResume whose catch block rethrows e.
createMergeRequestNoteResumeRethrows(p) ==
  IF p.out.tag = "Pending" THEN p
  ELSE Run(p.out, p.trace \o <<LogValueEvent("createMergeRequestNote", p.out.val)>>)

\* createMergeRequestNote after the await: the note is logged and returned; a
\* rejection is logged in the catch block, which falls through to
\* `return Promise.reject()`.
createMergeRequestNoteResume(p) ==
  CASE p.out.tag = "Pending" -> p
    [] p.out.tag = "Fulfilled" ->
         Run(p.out, p.trace \o <<LogValueEvent("createMergeRequestNote", p.out.val)>>)
    [] p.out.tag = "Rejected" ->
         Run(Rejected(Undefined),
             p.trace \o <<LogValueEvent("createMergeRequestNote", p.out.val)>>)

\* updateMergeRequestNote up to the await.
updateMergeRequestNoteStart(id, body) ==
  LET args == [projectId |-> api.repoSlug, mergerequestId |-> Text(api.pullRequestID),
               id |-> id, body |-> body]
  IN <<LogArgsEvent("updateMergeRequestNote", 5, args),
       SdkEventWith("MergeRequestNotes.edit", 4, args)>>

\* updateMergeRequestNote after the await.
updateMergeRequestNoteResume(p) ==
  CASE p.out.tag = "Pending" -> p
    [] p.out.tag = "Fulfilled" ->
         Run(p.out, p.trace \o <<LogValueEvent("updateMergeRequestNote", p.out.val)>>)
    [] p.out.tag = "Rejected" ->
         Run(Rejected(Undefined),
             p.trace \o <<LogValueEvent("updateMergeRequestNote", p.out.val)>>)

\* deleteMergeRequestNote up to the await.
deleteMergeRequestNoteStart(id) ==
  LET args == [projectId |-> api.repoSlug, mergerequestId |-> Text(api.pullRequestID),
               id |-> id]
  IN <<LogArgsEvent("deleteMergeRequestNote", 4, args),
       SdkEventWith("MergeRequestNotes.remove", 3, args)>>

\* Variant of deleteMergeRequestNoteResume whose catch block rethrows e.
deleteMergeRequestNoteResumeRethrows(p) ==
  CASE p.out.tag = "Pending" -> p
    [] p.out.tag = "Fulfilled" ->
         Run(Fulfilled(True), p.trace \o <<LogValueEvent("deleteMergeRequestNote", True)>>)
    [] p.out.tag = "Rejected" ->
         Run(p.out, p.trace \o <<LogValueEvent("deleteMergeRequestNote", p.out.val)>>)

\* deleteMergeRequestNote after the await: true is logged and returned; a
\* rejection is logged in the catch block, which returns false.
deleteMergeRequestNoteResume(p) ==
  CASE p.out.tag = "Pending" -> p
    [] p.out.tag = "Fulfilled" ->
         Run(Fulfilled(True), p.trace \o <<LogValueEvent("deleteMergeRequestNote", True)>>)
    [] p.out.tag = "Rejected" ->
         Run(Fulfilled(False),
             p.trace \o <<LogValueEvent("deleteMergeRequestNote", p.out.val)>>)

\* What the SDK can answer each operation with.
NoteLists ==
  {NoteList(<<>>),
   NoteList(<<Note(1, "DiffNote")>>),
   NoteList(<<Note(1, "DiscussionNote"), Note(2, "null")>>),
   NoteList(<<Note(1, "DiscussionNote"), Note(2, "DiffNote"), Note(3, "null"),
              Note(4, "DiffNote")>>)}

ResponsesOf(op) ==
  CASE op = "MergeRequests.show" -> {MergeRequest("abc"), Obj(1, 0), Null}
    [] op = "MergeRequestNotes.all" -> NoteLists \cup {Null}
    [] op = "RepositoryFiles.show" -> {File("aGk="), Obj(1, 0), Null}
    [] OTHER -> Responses

ReasonsOf(op) ==
  IF op = "RepositoryFiles.show" THEN Reasons \cup {HttpError(404), HttpError(500)}
  ELSE Reasons

\* The SDK operation a suspended call awaits: the last one it started.
AwaitedOp(c) ==
  LET made == SelectSeq(c.run.trace, IsSdk) IN made[Len(made)].label

\* An async method is called: it runs up to its first await and returns its
\* promise.  settled collects the outcomes of the SDK calls it awaited.
CallMethod(method, path, slug, ref, started) ==
  /\ Calls < MaxCalls
  /\ Len(calls) < MaxAsync
  /\ calls' = Append(calls, [method |-> method, path |-> path, slug |-> slug, ref |-> ref,
                             settled |-> <<>>, run |-> Run(Pending, started)])
  /\ sdkCalls' = sdkCalls \o SdkCallsOf(started, 0)
  /\ logCalls' = logCalls (+) LogBag(started)
  /\ UNCHANGED <<tasks, inv, api>>

getUser == CallMethod("getUser", Omitted, Omitted, Omitted, getUserStart)

getMergeRequestInfo ==
  CallMethod("getMergeRequestInfo", Omitted, Omitted, Omitted, getMergeRequestInfoStart)

getMergeRequestChanges ==
  CallMethod("getMergeRequestChanges", Omitted, Omitted, Omitted, getMergeRequestChangesStart)

getMergeRequestNotes ==
  CallMethod("getMergeRequestNotes", Omitted, Omitted, Omitted, getMergeRequestNotesStart)

getMergeRequestInlineNotes ==
  CallMethod("getMergeRequestInlineNotes", Omitted, Omitted, Omitted,
             getMergeRequestInlineNotesStart)

getFileContents(path, slug, ref) ==
  CallMethod("getFileContents", path, slug, ref, getFileContentsStart(path, slug, ref))

createMergeRequestNote(body) ==
  CallMethod("createMergeRequestNote", Omitted, Omitted, Omitted,
             createMergeRequestNoteStart(body))

updateMergeRequestNote(id, body) ==
  CallMethod("updateMergeRequestNote", Omitted, Omitted, Omitted,
             updateMergeRequestNoteStart(id, body))

deleteMergeRequestNote(id) ==
  CallMethod("deleteMergeRequestNote", Omitted, Omitted, Omitted,
             deleteMergeRequestNoteStart(id))

\* What call c does when the promise it awaits settles as outcome.
Continue(c, outcome) ==
  LET p == Run(outcome, c.run.trace)
  IN CASE c.method = "getUser" -> getUserResume(p)
       [] c.method = "getMergeRequestInfo" -> getMergeRequestInfoResume(p)
       [] c.method = "getMergeRequestChanges" -> getMergeRequestChangesResume(p)
       [] c.method = "getMergeRequestNotes" -> getMergeRequestNotesResume(p)
       [] c.method = "getMergeRequestInlineNotes" -> getMergeRequestInlineNotesResume(p)
       [] c.method = "createMergeRequestNote" -> createMergeRequestNoteResume(p)
       [] c.method = "updateMergeRequestNote" -> updateMergeRequestNoteResume(p)
       [] c.method = "deleteMergeRequestNote" -> deleteMergeRequestNoteResume(p)
       [] c.method = "getFileContents" ->
            IF AwaitedOp(c) = "MergeRequests.show"
            THEN getFileContentsAfterInfo(c.path, c.slug, p)
            ELSE getFileContentsAfterShow(p)

\* The SDK promise call i awaits settles and the call runs on, to its next
\* await or to its end.
Resume(i, outcome) ==
  /\ calls[i].run.out = Pending
  /\ LET r == Continue(calls[i], outcome)
         events == Since(calls[i].run.trace, r.trace)
     IN /\ calls' = [calls EXCEPT ![i].run = r, ![i].settled = Append(@, outcome)]
        /\ sdkCalls' = sdkCalls \o SdkCallsOf(events, 0)
        /\ logCalls' = logCalls (+) LogBag(events)
  /\ UNCHANGED <<tasks, inv, api>>

AwaitResolves(i, v) == Resume(i, Fulfilled(v))

AwaitRejects(i, r) == Resume(i, Rejected(r))

Paths == {"README.md"}

Slugs == {Omitted, "g/fork"}

Refs == {Omitted, "master"}

Awaiting == {i \in 1..Len(calls) : calls[i].run.out = Pending}

SomeAwaitResolves ==
  \E i \in Awaiting : \E v \in ResponsesOf(AwaitedOp(calls[i])) : AwaitResolves(i, v)

SomeAwaitRejects ==
  \E i \in Awaiting : \E r \in ReasonsOf(AwaitedOp(calls[i])) : AwaitRejects(i, r)

\* The methods that read the changes and the notes of the merge request.
NextNotes ==
  \/ getMergeRequestChanges
  \/ getMergeRequestNotes
  \/ getMergeRequestInlineNotes
  \/ SomeAwaitResolves
  \/ SomeAwaitRejects

SpecNotes == Init /\ [][NextNotes]_vars

Bodies == {"lgtm", ""}

NoteIds == {1, 2}

\* The methods that write the notes of the merge request.
NextWrites ==
  \/ \E body \in Bodies : createMergeRequestNote(body)
  \/ \E id \in NoteIds, body \in Bodies : updateMergeRequestNote(id, body)
  \/ \E id \in NoteIds : deleteMergeRequestNote(id)
  \/ SomeAwaitResolves
  \/ SomeAwaitRejects

SpecWrites == Init /\ [][NextWrites]_vars

\* getFileContents and the method it calls.
NextFiles ==
  \/ getMergeRequestInfo
  \/ \E path \in Paths, slug \in Slugs, ref \in Refs : getFileContents(path, slug, ref)
  \/ SomeAwaitResolves
  \/ SomeAwaitRejects

SpecFiles == Init /\ [][NextFiles]_vars

\* getUser next to its FP wrapper.
NextUser ==
  \/ getUser
  \/ getUserFp
  \/ \E p \in 1..Len(tasks) : Invoke(p)
  \/ \E i \in 1..Len(inv), v \in Responses : SdkResolves(i, v)
  \/ \E i \in 1..Len(inv), r \in Reasons : SdkRejects(i, r)
  \/ SomeAwaitResolves
  \/ SomeAwaitRejects

SpecUser == Init /\ [][NextUser]_vars

\* The constructor arguments the merge-request methods are checked with: the
\* ones of the tests, and pull-request IDs with a leading zero, with trailing
\* characters that are no digits and with no digit at all.
Constructed ==
  {TestAPI,
   GitLabAPI("http://localhost:8080", "g/p", <<"0", "8">>),
   GitLabAPI("https://gitlab.com", "g/p", <<"1", "2", "a">>),
   GitLabAPI("http://localhost:8080", "gitlab-org/gitlab-ce", <<"x">>)}

InitArgs ==
  /\ Fresh
  /\ api \in Constructed

\* The merge-request methods, for each of the constructor arguments.
NextArgs ==
  \/ getMergeRequestInfoFp
  \/ getMergeRequestInfo
  \/ \E p \in 1..Len(tasks) : Invoke(p)
  \/ \E i \in 1..Len(inv), v \in Responses : SdkResolves(i, v)
  \/ \E i \in 1..Len(inv), r \in Reasons : SdkRejects(i, r)
  \/ SomeAwaitResolves
  \/ SomeAwaitRejects

SpecArgs == InitArgs /\ [][NextArgs]_vars

\* C13: getMergeRequestChangesFp: when the SDK call resolves with a response
\* that contains the key changes the invocation yields Success with
\* response.changes, the list the imperative getMergeRequestChanges resolves
\* with for that response; when the response lacks the key it yields Failure
\* "Invalid merge request" and the projection to .changes is never applied.
C13_ChangesFpEndToEnd ==
  \A i \in Invocations :
    (inv[i].site = "getMergeRequestChangesFp" /\ inv[i].sdk.tag = "Fulfilled")
      => LET response == inv[i].sdk.val
             projected == SelectSeq(TraceOf(i), LAMBDA e : e.label = "res.changes")
         IN IF KeyPresent(response, "changes")
            THEN /\ inv[i].run.result.out = right(ChangeList(response.changes))
                 /\ getMergeRequestChangesResume(Run(inv[i].sdk, getMergeRequestChangesStart)).out
                      = Fulfilled(inv[i].run.result.out.val)
            ELSE /\ inv[i].run.result.out = left(Error("Invalid merge request"))
                 /\ projected = <<>>

\* C15: completion: once the SDK call of an invocation has settled (resolved
\* or rejected) the invocation has completed with exactly one Result, which
\* is a Success or a Failure and never both or neither.
C15_CompletesWithOneResult ==
  \A i \in Invocations :
    inv[i].sdk.tag \in {"Fulfilled", "Rejected"}
      => /\ inv[i].run.result.out.tag # "Pending"
         /\ (inv[i].run.result.out.tag = "Right") # (inv[i].run.result.out.tag = "Left")

\* The number parseInt(id, 10) gives for each pull-request ID of Constructed.
Base10(id) ==
  CASE Text(id) = "27117" -> [nan |-> FALSE, value |-> 27117]
    [] Text(id) = "08" -> [nan |-> FALSE, value |-> 8]
    [] Text(id) = "12a" -> [nan |-> FALSE, value |-> 12]
    [] Text(id) = "x" -> [nan |-> TRUE, value |-> 0]

\* C14: getMergeRequestInfoFp: whenever the SDK show call resolves with r the
\* invocation yields Success(r), r unchanged, and the logger is called with
\* ("getMergeRequestInfo", r) before the result is produced; the SDK is called
\* with the repo slug and the pull-request ID parsed as a base-10 integer.
C14_MergeRequestInfoFpEndToEnd ==
  \A i \in Invocations :
    inv[i].site = "getMergeRequestInfoFp"
      => /\ TraceOf(i)[2] = [ev |-> "sdk", label |-> "MergeRequests.show", nargs |-> 2,
                             arg |-> [projectId |-> api.repoSlug,
                                      mergerequestId |-> Base10(api.pullRequestID)]]
         /\ \E k \in 1..Len(sdkCalls) :
              sdkCalls[k] = [op |-> "MergeRequests.show", task |-> inv[i].task,
                             args |-> [projectId |-> api.repoSlug,
                                       mergerequestId |-> Base10(api.pullRequestID)]]
         /\ inv[i].sdk.tag = "Fulfilled"
              => /\ inv[i].run.result.out = [tag |-> "Right", val |-> inv[i].sdk.val]
                 /\ TraceOf(i)[3] = [ev |-> "log", label |-> "getMergeRequestInfo",
                                     nargs |-> 2, arg |-> inv[i].sdk.val]
                 /\ Len(SelectSeq(TraceOf(i), IsLog)) = 2

C14_Witness ==
  \E i \in Invocations :
    /\ inv[i].site = "getMergeRequestInfoFp"
    /\ Text(api.pullRequestID) = "08"
    /\ inv[i].sdk = Fulfilled(Obj(0, 1))
    /\ inv[i].run.result.out = right(Obj(0, 1))

URLsAsExpected ==
  /\ api = GitLabAPI("https://gitlab.com", "gitlab-org/gitlab-ce", <<"2", "7", "1", "1", "7">>)
       => /\ projectURL = "https://gitlab.com/gitlab-org/gitlab-ce"
          /\ mergeRequestURL = "https://gitlab.com/gitlab-org/gitlab-ce/merge_requests/27117"
  /\ api = GitLabAPI("http://localhost:8080", "g/p", <<"0", "8">>)
       => /\ projectURL = "http://localhost:8080/g/p"
          /\ mergeRequestURL = "http://localhost:8080/g/p/merge_requests/08"
  /\ api = GitLabAPI("https://gitlab.com", "g/p", <<"1", "2", "a">>)
       => /\ projectURL = "https://gitlab.com/g/p"
          /\ mergeRequestURL = "https://gitlab.com/g/p/merge_requests/12a"
  /\ api = GitLabAPI("http://localhost:8080", "gitlab-org/gitlab-ce", <<"x">>)
       => /\ projectURL = "http://localhost:8080/gitlab-org/gitlab-ce"
          /\ mergeRequestURL = "http://localhost:8080/gitlab-org/gitlab-ce/merge_requests/x"
  /\ projectURL = api.host \o "/" \o api.repoSlug
  /\ mergeRequestURL = projectURL \o "/merge_requests/" \o Text(api.pullRequestID)

\* C16: for every host h, repo slug s and pull-request ID p, projectURL is
\* h + "/" + s and mergeRequestURL is projectURL + "/merge_requests/" + p; both
\* are functions of the constructor arguments only and no method call changes
\* them.
C16_URLs ==
  /\ []URLsAsExpected
  /\ [][projectURL' = projectURL /\ mergeRequestURL' = mergeRequestURL]_vars

C16_Witness ==
  /\ mergeRequestURL = "http://localhost:8080/g/p/merge_requests/08"
  /\ Len(calls) > 0
  /\ \E i \in Invocations : Settled(i)

AsyncCalls == 1..Len(calls)

\* The notes of type DiffNote among ns, in the order of ns.
RECURSIVE DiffNotesOf(_)
DiffNotesOf(ns) ==
  IF ns = <<>> THEN <<>>
  ELSE IF Head(ns).type = "DiffNote" THEN <<Head(ns)>> \o DiffNotesOf(Tail(ns))
  ELSE DiffNotesOf(Tail(ns))

\* C17: getMergeRequestInlineNotes resolves with exactly the notes of type
\* "DiffNote" among those the notes call returned, in their order (the empty
\* list when there are none), and makes exactly one notes SDK call; if the
\* notes call rejects it rejects with the same reason.
C17_InlineNotes ==
  \A c \in AsyncCalls :
    calls[c].method = "getMergeRequestInlineNotes"
      => /\ SelectSeq(calls[c].run.trace, IsSdk)
              = <<[ev |-> "sdk", label |-> "MergeRequestNotes.all", nargs |-> 2,
                   arg |-> [projectId |-> api.repoSlug,
                            mergerequestId |-> Text(api.pullRequestID)]]>>
         /\ calls[c].settled = <<>> => calls[c].run.out = Pending
         /\ \A ns \in NoteLists :
              calls[c].settled = <<Fulfilled(ns)>>
                => /\ calls[c].run.out.tag = "Fulfilled"
                   /\ calls[c].run.out.val.type = "array"
                   /\ calls[c].run.out.val.notes = DiffNotesOf(ns.notes)
         /\ \A r \in Reasons :
              calls[c].settled = <<Rejected(r)>> => calls[c].run.out = Rejected(r)

C17_Witness ==
  \E c, d \in AsyncCalls :
    /\ calls[c].method = "getMergeRequestInlineNotes"
    /\ Len(calls[c].settled) = 1
    /\ calls[c].settled[1].tag = "Fulfilled"
    /\ calls[c].settled[1].val.type = "array"
    /\ Len(calls[c].settled[1].val.notes) = 4
    /\ calls[c].run.out.val.notes = <<Note(2, "DiffNote"), Note(4, "DiffNote")>>
    /\ calls[d].method = "getMergeRequestInlineNotes"
    /\ calls[d].settled = <<Rejected(Str("timeout"))>>
    /\ calls[d].run.out = Rejected(Str("timeout"))

\* What toError makes of each reason of Reasons.
Coerced(r) ==
  CASE r = Error("network") -> Error("network")
    [] r = Str("timeout") -> Error("timeout")
    [] r = Undefined -> Error("undefined")

\* C18: getUser and getUserFp agree on every SDK outcome in which the response
\* contains id or the call rejects: on v (containing id) getUser resolves with
\* v and getUserFp yields Success(v); on a rejection with r getUser rejects
\* with r and getUserFp yields Failure of r coerced to an error; in both cases
\* the two make the same logger calls: "getUser", then ("getUser", v) on
\* resolution only.
C18_GetUserAgreesWithFp ==
  \A c \in AsyncCalls, i \in Invocations :
    (calls[c].method = "getUser" /\ inv[i].site = "getUserFp"
       /\ calls[c].settled = <<inv[i].sdk>>)
      => LET o == inv[i].sdk
             label == [ev |-> "log", label |-> "getUser", nargs |-> 1, arg |-> Undefined]
             value == [ev |-> "log", label |-> "getUser", nargs |-> 2, arg |-> o.val]
         IN /\ (o.tag = "Fulfilled" /\ KeyPresent(o.val, "id"))
                 => /\ calls[c].run.out = Fulfilled(o.val)
                    /\ inv[i].run.result.out = [tag |-> "Right", val |-> o.val]
                    /\ SelectSeq(calls[c].run.trace, IsLog) = <<label, value>>
                    /\ SelectSeq(TraceOf(i), IsLog) = <<label, value>>
            /\ o.tag = "Rejected"
                 => /\ calls[c].run.out = Rejected(o.val)
                    /\ inv[i].run.result.out = [tag |-> "Left", val |-> Coerced(o.val)]
                    /\ SelectSeq(calls[c].run.trace, IsLog) = <<label>>
                    /\ SelectSeq(TraceOf(i), IsLog) = <<label>>

C18_Witness ==
  \E c \in AsyncCalls, i \in Invocations :
    /\ calls[c].method = "getUser" /\ inv[i].site = "getUserFp"
    /\ calls[c].settled = <<Fulfilled(Obj(1, 0))>>
    /\ inv[i].sdk = Fulfilled(Obj(1, 0))
    /\ calls[c].run.out = Fulfilled(Obj(1, 0))
    /\ inv[i].run.result.out = right(Obj(1, 0))

\* The call c of getFileContents has had its api.show(...) call settled.
ShowSettled(c) ==
  /\ calls[c].method = "getFileContents"
  /\ calls[c].run.out # Pending
  /\ AwaitedOp(calls[c]) = "RepositoryFiles.show"

\* C20: getFileContents, when the file-show SDK call rejects: with a 404
\* response it resolves with the empty string; with every other reason it
\* rejects with that same reason.
C20_FileContentsRejection ==
  \A c \in AsyncCalls :
    (ShowSettled(c) /\ calls[c].settled[Len(calls[c].settled)].tag = "Rejected")
      => LET r == calls[c].settled[Len(calls[c].settled)].val
         IN IF "response" \in DOMAIN r /\ r.response.status = 404
            THEN calls[c].run.out = Fulfilled(Str(""))
            ELSE calls[c].run.out = Rejected(r)

\* C21: getFileContents, when the file-show SDK call resolves: with a response
\* that lacks the key content it rejects with the error whose message starts
\* with "Could not find content in response:"; with a response that has
\* content it resolves with the base64-decoded content.
C21_FileContentsResolution ==
  \A c \in AsyncCalls :
    (ShowSettled(c) /\ calls[c].settled[Len(calls[c].settled)].tag = "Fulfilled")
      => LET response == calls[c].settled[Len(calls[c].settled)].val
         IN IF "content" \in DOMAIN response
            THEN /\ response.content = "aGk="
                 /\ calls[c].run.out = Fulfilled(Str("hi"))
            ELSE calls[c].run.out
                   = Rejected(Error("Could not find content in response: "
                                      \o JSONStringify(response)))

\* C22: deleteMergeRequestNote never rejects: it resolves with true exactly
\* when the SDK remove call resolves and with false exactly when the remove
\* call rejects, and it makes exactly one remove call per invocation.
C22_DeleteNoteNeverRejects ==
  \A c \in AsyncCalls :
    calls[c].method = "deleteMergeRequestNote"
      => LET made == SelectSeq(calls[c].run.trace, IsSdk)
             out == calls[c].run.out
         IN /\ Len(made) = 1
            /\ made[1].label = "MergeRequestNotes.remove"
            /\ Len(calls[c].settled) <= 1
            /\ out.tag # "Rejected"
            /\ calls[c].settled = <<>> <=> out = Pending
            /\ (calls[c].settled # <<>> /\ calls[c].settled[1].tag = "Fulfilled")
                 <=> out = Fulfilled(JsValue("boolean", 0, 0, 0, "true"))
            /\ (calls[c].settled # <<>> /\ calls[c].settled[1].tag = "Rejected")
                 <=> out = Fulfilled(JsValue("boolean", 0, 0, 0, "false"))

C22_Witness ==
  \E c, d \in AsyncCalls :
    /\ calls[c].method = "deleteMergeRequestNote"
    /\ calls[c].settled = <<Fulfilled(Null)>>
    /\ calls[c].run.out = Fulfilled(True)
    /\ calls[d].method = "deleteMergeRequestNote"
    /\ calls[d].settled = <<Rejected(Error("network"))>>
    /\ calls[d].run.out = Fulfilled(False)

\* C23: createMergeRequestNote and updateMergeRequestNote resolve with the note
\* the SDK returned when the SDK call resolves; when it rejects with reason r
\* the returned promise rejects with no reason (undefined) rather than with r,
\* and r is only passed to the logger.
C23_WriteNoteRejectsWithoutReason ==
  \A c \in AsyncCalls :
    (calls[c].method \in {"createMergeRequestNote", "updateMergeRequestNote"}
       /\ calls[c].settled # <<>>)
      => LET o == calls[c].settled[1]
             trace == calls[c].run.trace
         IN /\ Len(calls[c].settled) = 1
            /\ trace[Len(trace)] = [ev |-> "log", label |-> calls[c].method, nargs |-> 2,
                                    arg |-> o.val]
            /\ o.tag = "Fulfilled" => calls[c].run.out = Fulfilled(o.val)
            /\ o.tag = "Rejected"
                 => calls[c].run.out = Rejected(JsValue("undefined", 0, 0, 0, ""))

C23_Witness ==
  \E c, d \in AsyncCalls :
    /\ calls[c].method = "createMergeRequestNote"
    /\ calls[c].settled = <<Rejected(Error("network"))>>
    /\ calls[c].run.out = Rejected(Undefined)
    /\ calls[d].method = "updateMergeRequestNote"
    /\ calls[d].settled = <<Fulfilled(Obj(1, 0))>>
    /\ calls[d].run.out = Fulfilled(Obj(1, 0))

====
